---- MODULE Spec2Model ----
(***************************************************************************)
(* SSDPServer of coherence/upnp/core/ssdp.py as a state machine.           *)
(*                                                                         *)
(* The registry self.known is a function from USN to a record, the record  *)
(* being the Python dict of line 111-122 (a function from its keys to its  *)
(* values).  reactor.getDelayedCalls() is the bag delayedCalls.  The       *)
(* two LoopingCalls are the booleans resend_notify_loop, check_valid_loop  *)
(* (their .running).  time.time() is the variable clock.  self._callbacks   *)
(* is a function from the names subscribed to, to the list of callbacks.   *)
(*                                                                         *)
(* Every action is one whole handler.  What a handler did is kept in       *)
(* history variables that are reset by every handler:                      *)
(*   written   the datagrams handed to self.transport.write, in order      *)
(*   louie     the louie.send signals, in order                            *)
(*   scheduled the reactor.callLater calls, in order, each with its delay  *)
(*   invoked   the callbacks that callback() called, in order              *)
(*   raised    the exception that left the handler ("none" when none)      *)
(*   call      the handler that ran last, with the USN or the payload it   *)
(*             was given                                                   *)
(*   par       parity of the number of handlers run, so that no handler    *)
(*             run is a stuttering step                                    *)
(*   shut      shutdown() has returned at least once                       *)
(*                                                                         *)
(* Strings whose text the code parses (CACHE-CONTROL, MX) are sequences of *)
(* one-character strings; all other strings are opaque.  The module uses   *)
(* string.split, so the semantics are those of Python 2.                   *)
(***************************************************************************)
EXTENDS Integers, Sequences, FiniteSets, TLC

VARIABLES known, _callbacks, clock, delayedCalls, transport, test,
          resend_notify_loop, check_valid_loop,
          written, louie, scheduled, invoked, raised, call, par, shut

vars == <<par, known, _callbacks, clock, delayedCalls, transport, test,
          resend_notify_loop, check_valid_loop,
          written, louie, scheduled, invoked, raised, call, shut>>

(***************************************************************************)
(* Bounds of the model.                                                    *)
(***************************************************************************)
\* the clock takes the values 0 and 31 .. MaxTime
MaxTime == 32
\* at most MaxTimers delayed calls are pending at a time
MaxTimers == 2
\* at most MaxCallbacks callbacks are subscribed to a name
MaxCallbacks == 3
\* the largest MX header value received
MaxMX == 6

(***************************************************************************)
(* Program constants and the values the inputs are drawn from.             *)
(***************************************************************************)
SSDP_PORT == 1900
SSDP_ADDR == "239.255.255.250"
SERVER_ID == "Coherence"
None == "None"
\* the payload of a handler that is given none
NoData == <<>>

USNs == {"uuid:a", "uuid:b"}
STs == {"upnp:rootdevice", "urn:svc"}
Manifestations == {"local", "remote"}
TimePoints == {0} \cup (31 .. MaxTime)
PeerHost == "10.0.0.5"
PeerPort == 45000

(***************************************************************************)
(* Python strings that are parsed, as sequences of characters.             *)
(***************************************************************************)
Digits == <<"0", "1", "2", "3", "4", "5", "6", "7", "8", "9">>
IsDigit(c) == \E d \in 1 .. 10 : Digits[d] = c
DigitVal(c) == (CHOOSE d \in 1 .. 10 : Digits[d] = c) - 1
MaxAge(digits) == <<"m", "a", "x", "-", "a", "g", "e", "=">> \o digits
NoCache == <<"n", "o", "-", "c", "a", "c", "h", "e">>
\* the default of register's cache_control parameter
DefaultCacheControl == MaxAge(<<"1", "8", "0", "0">>)

\* str.split(sep) for a one-character separator
RECURSIVE split(_, _)
split(s, sep) ==
    IF \A i \in 1 .. Len(s) : s[i] # sep
    THEN <<s>>
    ELSE LET i == CHOOSE j \in 1 .. Len(s) :
                      s[j] = sep /\ \A l \in 1 .. (j - 1) : s[l] # sep
         IN  <<SubSeq(s, 1, i - 1)>> \o split(SubSeq(s, i + 1, Len(s)), sep)

\* str.strip() of blanks
RECURSIVE strip(_)
strip(s) ==
    IF s = <<>> THEN s
    ELSE IF s[1] = " " THEN strip(Tail(s))
    ELSE IF s[Len(s)] = " " THEN strip(SubSeq(s, 1, Len(s) - 1))
    ELSE s

RECURSIVE DecimalValue(_)
DecimalValue(s) ==
    IF s = <<>> THEN 0
    ELSE 10 * DecimalValue(SubSeq(s, 1, Len(s) - 1)) + DigitVal(s[Len(s)])

Unsigned(s) == IF s # <<>> /\ s[1] \in {"+", "-"} THEN Tail(s) ELSE s

\* int(s) raises ValueError unless s is an optionally signed decimal literal
IntRaises(s) ==
    LET body == Unsigned(strip(s))
    IN  body = <<>> \/ \E i \in 1 .. Len(body) : ~IsDigit(body[i])

int(s) ==
    LET t == strip(s)
        v == DecimalValue(Unsigned(t))
    IN  IF t # <<>> /\ t[1] = "-" THEN 0 - v ELSE v

(***************************************************************************)
(* Dict and sequence helpers.                                              *)
(***************************************************************************)
Remove(f, k) == [x \in (DOMAIN f) \ {k} |-> f[x]]

\* the orders in which a dict with the keys S may be iterated
Orders(S) ==
    {o \in [1 .. Cardinality(S) -> S] :
        \A i, j \in 1 .. Cardinality(S) : i # j => o[i] # o[j]}

\* bags (call |-> how many of it are pending)
EmptyBag == <<>>
BagAdd(b, x) == IF x \in DOMAIN b THEN [b EXCEPT ![x] = @ + 1] ELSE (x :> 1) @@ b
BagRemove(b, x) == IF b[x] > 1 THEN [b EXCEPT ![x] = @ - 1] ELSE Remove(b, x)

RECURSIVE BagSize(_)
BagSize(b) ==
    IF DOMAIN b = {} THEN 0
    ELSE LET x == CHOOSE y \in DOMAIN b : TRUE
         IN  b[x] + BagSize(Remove(b, x))

RECURSIVE BagAddAll(_, _)
BagAddAll(b, xs) ==
    IF Len(xs) = 0 THEN b
    ELSE BagAddAll(BagAdd(b, xs[1]), [n \in 1 .. (Len(xs) - 1) |-> xs[n + 1]])

(***************************************************************************)
(* Outbound datagrams: self.transport.write(text, destination).  The text  *)
(* is its first line and the set of its header lines.                      *)
(***************************************************************************)
Multicast == <<SSDP_ADDR, SSDP_PORT>>

Datagram(start, headers, dest) ==
    [start |-> start, headers |-> headers, dest |-> dest]

\* self.transport.write(d): the call as logged in written.  Without a
\* transport the attribute lookup raises AttributeError and no call is made;
\* a faulty transport raises socket.error from the call.
Write(tr, d) ==
    CASE tr = "ok" -> <<[datagram |-> d, sent |-> TRUE]>>
      [] tr = "faulty" -> <<[datagram |-> d, sent |-> FALSE]>>
      [] OTHER -> <<>>

WriteRaises(tr) == tr # "ok"

\* stcpy of doNotify and doByebye: NT for ST, less the four private keys
stcpy(rec) ==
    LET renamed == ("NT" :> rec["ST"]) @@ rec
    IN  [k \in (DOMAIN renamed) \ {"ST", "MANIFESTATION", "SILENT", "HOST", "last-seen"}
            |-> renamed[k]]

NotifyDatagram(rec, nts) ==
    Datagram("NOTIFY * HTTP/1.1",
             ("HOST" :> Multicast) @@ ("NTS" :> nts) @@ stcpy(rec),
             Multicast)

\* doNotify, but the second write of line 232 is lost
doNotifyOnce(k, usn, tr) ==
    IF k[usn]["SILENT"] = TRUE THEN <<>>
    ELSE Write(tr, NotifyDatagram(k[usn], "ssdp:alive"))

\* what doNotify(usn) writes: nothing for a silent record, else the alive
\* message twice; AttributeError (no transport) and socket.error are caught
doNotify(k, usn, tr) ==
    LET d == NotifyDatagram(k[usn], "ssdp:alive")
    IN  IF k[usn]["SILENT"] = TRUE THEN <<>>
        ELSE IF WriteRaises(tr) THEN Write(tr, d)
        ELSE Write(tr, d) \o Write(tr, d)

\* doByebye, but returning early for a silent record as doNotify does
doByebyeUnlessSilent(k, usn, tr) ==
    IF usn \notin DOMAIN k THEN <<>>
    ELSE IF k[usn]["SILENT"] = TRUE THEN <<>>
    ELSE IF tr = "none" THEN <<>>
    ELSE IF tr = "ok"
         THEN <<[datagram |-> NotifyDatagram(k[usn], "ssdp:byebye"), sent |-> TRUE]>>
         ELSE <<[datagram |-> NotifyDatagram(k[usn], "ssdp:byebye"), sent |-> FALSE]>>

\* what doByebye(usn) writes: one byebye when there is a working transport;
\* KeyError (unknown usn), a missing transport and socket.error write nothing
doByebye(k, usn, tr) ==
    IF usn \notin DOMAIN k THEN <<>>
    ELSE IF tr = "none" THEN <<>>
    ELSE Write(tr, NotifyDatagram(k[usn], "ssdp:byebye"))

(***************************************************************************)
(* louie signals.                                                          *)
(***************************************************************************)
DeviceSignal(name, rec) ==
    [signal |-> name, device_type |-> rec["ST"], infos |-> rec]

LogSignal(host, text, about) ==
    [signal |-> "Coherence.UPnP.Log", host |-> host, text |-> text, about |-> about]

DatagramSignal(data, host, port) ==
    [signal |-> "UPnP.SSDP.datagram_received", data |-> data, host |-> host, port |-> port]

(***************************************************************************)
(* The registry.  Each operator gives the effect of the method as a record *)
(* of the new registry, the datagrams written, the signals sent, the       *)
(* exception raised and the delayed calls scheduled.                       *)
(***************************************************************************)
Effect(k, w, l, r) ==
    [known |-> k, written |-> w, louie |-> l, raised |-> r, scheduled |-> <<>>]

\* Record, but the host argument is dropped
RecordWithoutHost(manifestation, usn, st, location, server, cache_control, silent, host, now) ==
    ("USN" :> usn) @@ ("LOCATION" :> location) @@ ("ST" :> st) @@ ("EXT" :> "")
    @@ ("SERVER" :> server) @@ ("CACHE-CONTROL" :> cache_control)
    @@ ("MANIFESTATION" :> manifestation) @@ ("SILENT" :> silent)
    @@ ("HOST" :> None) @@ ("last-seen" :> now)

\* the dict register() stores under known[usn]
Record(manifestation, usn, st, location, server, cache_control, silent, host, now) ==
    ("USN" :> usn) @@ ("LOCATION" :> location) @@ ("ST" :> st) @@ ("EXT" :> "")
    @@ ("SERVER" :> server) @@ ("CACHE-CONTROL" :> cache_control)
    @@ ("MANIFESTATION" :> manifestation) @@ ("SILENT" :> silent)
    @@ ("HOST" :> host) @@ ("last-seen" :> now)

register(k, tr, now, manifestation, usn, st, location, server, cache_control, silent, host) ==
    LET rec == Record(manifestation, usn, st, location, server, cache_control,
                      silent, host, now)
        k2  == (usn :> rec) @@ k
    IN  Effect(k2,
               IF manifestation = "local" THEN doNotify(k2, usn, tr) ELSE <<>>,
               IF st = "upnp:rootdevice"
               THEN <<DeviceSignal("Coherence.UPnP.SSDP.new_device", rec)>>
               ELSE <<>>,
               "none")

\* unRegister, but the removed_device signal of line 137 is lost
unRegisterUnannounced(k, usn) ==
    IF usn \notin DOMAIN k
    THEN [known |-> k, written |-> <<>>, louie |-> <<>>, raised |-> "KeyError",
          scheduled |-> <<>>]
    ELSE [known |-> [x \in (DOMAIN k) \ {usn} |-> k[x]], written |-> <<>>,
          louie |-> <<>>, raised |-> "none", scheduled |-> <<>>]

\* unRegister, but the del of line 140 is lost
unRegisterWithoutDel(k, usn) ==
    IF usn \notin DOMAIN k
    THEN [known |-> k, written |-> <<>>, louie |-> <<>>, raised |-> "KeyError",
          scheduled |-> <<>>]
    ELSE [known |-> k, written |-> <<>>,
          louie |-> IF k[usn]["ST"] = "upnp:rootdevice"
                    THEN <<[signal |-> "Coherence.UPnP.SSDP.removed_device",
                            device_type |-> k[usn]["ST"], infos |-> k[usn]]>>
                    ELSE <<>>,
          raised |-> "none", scheduled |-> <<>>]

unRegister(k, usn) ==
    IF usn \notin DOMAIN k
    THEN Effect(k, <<>>, <<>>, "KeyError")
    ELSE Effect(Remove(k, usn), <<>>,
                IF k[usn]["ST"] = "upnp:rootdevice"
                THEN <<DeviceSignal("Coherence.UPnP.SSDP.removed_device", k[usn])>>
                ELSE <<>>,
                "none")

isKnown(k, usn) == usn \in DOMAIN k

(***************************************************************************)
(* Inbound datagrams.  data is the sequence data.split('\r\n\r\n'): its    *)
(* first block is the request line, already split at blanks, with the      *)
(* header lines as the dict of line 84 (lower-case names); a payload       *)
(* without the blank line is a single block.                               *)
(***************************************************************************)
HeaderBlock(cmd, headers) == [cmd |-> cmd, headers |-> headers]
Framed(cmd, headers) == <<HeaderBlock(cmd, headers), "">>
Garbage == <<HeaderBlock(<<"hello", "world">>, <<>>)>>

RemoteLocation == "http://10.0.0.2:8000/desc.xml"
RemoteServer == "Foo/1"
RemoteCacheControls == {MaxAge(<<"1">>), NoCache}
NotifyCmd == <<"NOTIFY", "*", "HTTP/1.1">>
SearchCmd == <<"M-SEARCH", "*", "HTTP/1.1">>

NotifyHeaders(nts, usn, nt, cache_control) ==
    ("host" :> Multicast) @@ ("nt" :> nt) @@ ("nts" :> nts) @@ ("usn" :> usn)
    @@ ("location" :> RemoteLocation) @@ ("server" :> RemoteServer)
    @@ ("cache-control" :> cache_control)

SearchHeaders(st, mx) ==
    ("host" :> Multicast) @@ ("man" :> "ssdp:discover") @@ ("st" :> st) @@ ("mx" :> mx)

NotifyDatagrams ==
    {Framed(NotifyCmd, NotifyHeaders("ssdp:alive", u, nt, cc)) :
        u \in USNs, nt \in STs, cc \in RemoteCacheControls}
    \cup {Framed(NotifyCmd, NotifyHeaders("ssdp:byebye", u, "upnp:rootdevice", MaxAge(<<"1">>))) :
            u \in USNs}
    \cup {Framed(NotifyCmd, NotifyHeaders("ssdp:update", "uuid:a", "upnp:rootdevice",
                                          MaxAge(<<"1">>)))}
    \cup {Framed(NotifyCmd,
                 Remove(NotifyHeaders("ssdp:alive", "uuid:a", "upnp:rootdevice",
                                      MaxAge(<<"1">>)), h)) :
            h \in {"nt", "nts", "usn", "location", "server", "cache-control"}}
    \cup {Framed(NotifyCmd,
                 Remove(NotifyHeaders("ssdp:byebye", "uuid:a", "upnp:rootdevice",
                                      MaxAge(<<"1">>)), "usn"))}

MXValues == {<<"0">>, <<Digits[MaxMX + 1]>>}
BadMXValues == {<<"x">>, <<"-", "1">>}

SearchDatagrams ==
    {Framed(SearchCmd, SearchHeaders(st, mx)) :
        st \in {"ssdp:all", "upnp:rootdevice"}, mx \in MXValues}
    \cup {Framed(SearchCmd, SearchHeaders("ssdp:all", mx)) : mx \in BadMXValues}
    \cup {Framed(SearchCmd, Remove(SearchHeaders("ssdp:all", <<"0">>), h)) : h \in {"st", "mx"}}

OtherDatagrams ==
    {Garbage, Framed(<<"GET", "/", "HTTP/1.1">>, <<>>), Framed(<<"HELLO">>, <<>>)}

(***************************************************************************)
(* notifyReceived.                                                         *)
(***************************************************************************)
Missing(headers, names) == \E h \in names : h \notin DOMAIN headers

\* the Coherence.UPnP.Log signal of line 165, which reads headers['usn']
NotifyLogged(e, headers, host) ==
    IF e.raised # "none" THEN e
    ELSE IF "usn" \notin DOMAIN headers THEN [e EXCEPT !.raised = "KeyError"]
    ELSE [e EXCEPT !.louie = @ \o <<LogSignal(host, <<"Notify", headers["nts"]>>,
                                                headers["usn"])>>]

\* notifyReceived, but an alive registers the record also when the USN is
\* known
notifyReceivedRegistering(k, tr, now, headers, host, port) ==
    IF Missing(headers, {"nt", "nts"}) THEN Effect(k, <<>>, <<>>, "KeyError")
    ELSE NotifyLogged(
        CASE headers["nts"] = "ssdp:alive" ->
                IF Missing(headers, {"usn", "location", "server", "cache-control"})
                THEN Effect(k, <<>>, <<>>, "KeyError")
                ELSE register(k, tr, now, "remote", headers["usn"], headers["nt"],
                              headers["location"], headers["server"],
                              headers["cache-control"], FALSE, host)
          [] headers["nts"] = "ssdp:byebye" ->
                IF "usn" \notin DOMAIN headers THEN Effect(k, <<>>, <<>>, "KeyError")
                ELSE IF isKnown(k, headers["usn"]) THEN unRegister(k, headers["usn"])
                ELSE Effect(k, <<>>, <<>>, "none")
          [] OTHER -> Effect(k, <<>>, <<>>, "none"),
        headers, host)

notifyReceived(k, tr, now, headers, host, port) ==
    IF Missing(headers, {"nt", "nts"}) THEN Effect(k, <<>>, <<>>, "KeyError")
    ELSE NotifyLogged(
        CASE headers["nts"] = "ssdp:alive" ->
                IF "usn" \in DOMAIN headers /\ headers["usn"] \in DOMAIN k
                THEN Effect([k EXCEPT ![headers["usn"]]["last-seen"] = now],
                            <<>>, <<>>, "none")
                ELSE IF Missing(headers, {"usn", "location", "server", "cache-control"})
                THEN Effect(k, <<>>, <<>>, "KeyError")
                ELSE register(k, tr, now, "remote", headers["usn"], headers["nt"],
                              headers["location"], headers["server"],
                              headers["cache-control"], FALSE, host)
          [] headers["nts"] = "ssdp:byebye" ->
                IF "usn" \notin DOMAIN headers THEN Effect(k, <<>>, <<>>, "KeyError")
                ELSE IF isKnown(k, headers["usn"]) THEN unRegister(k, headers["usn"])
                ELSE Effect(k, <<>>, <<>>, "none")
          [] OTHER -> Effect(k, <<>>, <<>>, "none"),
        headers, host)

(***************************************************************************)
(* discoveryRequest and send_it.                                           *)
(***************************************************************************)
USNOrder == <<"uuid:a", "uuid:b">>

\* the search response built for record i at lines 192-202
Response(i, now) ==
    [start   |-> "HTTP/1.1 200 OK",
     headers |-> [key \in (DOMAIN i) \ {"MANIFESTATION", "SILENT", "HOST"} |-> i[key]]
                 @@ ("DATE" :> now)]

\* the call reactor.callLater of line 205 leaves pending; its delay is kept
\* with the callLater call, in scheduled
DelayedCall(response, destination, usn) ==
    [func |-> "send_it", response |-> response, destination |-> destination, usn |-> usn]

callLater(delay, c) == [delay |-> delay, call |-> c]

\* Answering, but the test of lines 187-189 for silent records is lost
AnsweringSilentToo(k, st) ==
    SelectSeq(<<"uuid:a", "uuid:b">>,
              LAMBDA u : /\ u \in DOMAIN k
                         /\ k[u]["MANIFESTATION"] # "remote"
                         /\ (k[u]["ST"] = st \/ st = "ssdp:all"))

\* the records the loop of line 184 answers for, in the order it meets them
Answering(k, st) ==
    SelectSeq(USNOrder,
              LAMBDA u : /\ u \in DOMAIN k
                         /\ k[u]["MANIFESTATION"] # "remote"
                         /\ ~(st = "ssdp:all" /\ k[u]["SILENT"] = TRUE)
                         /\ (k[u]["ST"] = st \/ st = "ssdp:all"))

\* every outcome of discoveryRequest: one per choice of the random delays
discoveryRequest(k, now, headers, host, port) ==
    IF "st" \notin DOMAIN headers THEN {Effect(k, <<>>, <<>>, "KeyError")}
    ELSE LET log == <<LogSignal(host, <<"M-Search", headers["st"]>>, None)>>
             us  == Answering(k, headers["st"])
         IN  IF us = <<>> THEN {Effect(k, <<>>, log, "none")}
             ELSE IF "mx" \notin DOMAIN headers THEN {Effect(k, <<>>, log, "KeyError")}
             ELSE IF IntRaises(headers["mx"]) \/ int(headers["mx"]) < 0
             THEN {Effect(k, <<>>, log, "ValueError")}
             ELSE {[Effect(k, <<>>, log, "none") EXCEPT !.scheduled =
                        [n \in 1 .. Len(us) |->
                            callLater(delay[n],
                                      DelayedCall(Response(k[us[n]], now), <<host, port>>,
                                                  k[us[n]]["USN"]))]] :
                    delay \in [1 .. Len(us) -> 0 .. int(headers["mx"])]}

\* what send_it writes; AttributeError and socket.error are caught
send_it(tr, response, destination) ==
    Write(tr, Datagram(response.start, response.headers, destination))

(***************************************************************************)
(* datagramReceived: every outcome for one payload.                        *)
(***************************************************************************)
Published(e, data, host, port) ==
    IF e.raised # "none" THEN e
    ELSE [e EXCEPT !.louie = @ \o <<DatagramSignal(data, host, port)>>]

datagramReceived(k, tr, now, data, host, port) ==
    IF Len(data) < 2
    THEN \* ValueError is caught, pdb.set_trace() runs, header is unbound
         {Effect(k, <<>>, <<>>, x) : x \in {"UnboundLocalError", "BdbQuit"}}
    ELSE LET cmd     == data[1].cmd
             headers == data[1].headers
         IN  IF Len(cmd) < 2 THEN {Effect(k, <<>>, <<>>, "IndexError")}
             ELSE IF cmd[1] = "M-SEARCH" /\ cmd[2] = "*"
             THEN {Published(e, data, host, port) :
                      e \in discoveryRequest(k, now, headers, host, port)}
             ELSE IF cmd[1] = "NOTIFY" /\ cmd[2] = "*"
             THEN {Published(notifyReceived(k, tr, now, headers, host, port),
                             data, host, port)}
             ELSE {Published(Effect(k, <<>>, <<>>, "none"), data, host, port)}

(***************************************************************************)
(* resendNotify, check_valid, shutdown: order is the order in which the    *)
(* loop over self.known meets the keys.                                    *)
(***************************************************************************)
RECURSIVE resendNotify(_, _, _)
resendNotify(k, tr, order) ==
    IF Len(order) = 0 THEN <<>>
    ELSE (IF k[order[1]]["MANIFESTATION"] = "local" THEN doNotify(k, order[1], tr) ELSE <<>>)
         \o resendNotify(k, tr, [n \in 1 .. (Len(order) - 1) |-> order[n + 1]])

\* line 277-278 raises ValueError unless CACHE-CONTROL is name=integer (the
\* split is bound by \E so that it is computed once)
ExpiryRaises(rec) ==
    \E parts \in {split(rec["CACHE-CONTROL"], "=")} :
        Len(parts) # 2 \/ IntRaises(parts[2])

expiry(rec) ==
    CHOOSE e \in {int(parts[2]) : parts \in {split(rec["CACHE-CONTROL"], "=")}} : TRUE

\* line 282
Expired(rec, now) == rec["last-seen"] + expiry(rec) + 30 < now

\* the first loop of check_valid from position n on: removable and the
\* signals so far, and the exception that ends it
RECURSIVE validLoop(_, _, _, _, _, _)
validLoop(k, now, order, n, removable, signals) ==
    IF n > Len(order) THEN [removable |-> removable, louie |-> signals, raised |-> "none"]
    ELSE LET rec == k[order[n]]
         IN  IF rec["MANIFESTATION"] = "local"
             THEN validLoop(k, now, order, n + 1, removable, signals)
             ELSE IF ExpiryRaises(rec)
             THEN [removable |-> removable, louie |-> signals, raised |-> "ValueError"]
             ELSE IF Expired(rec, now)
             THEN validLoop(k, now, order, n + 1, removable \cup {order[n]},
                            IF rec["ST"] = "upnp:rootdevice"
                            THEN signals \o <<DeviceSignal("Coherence.UPnP.SSDP.removed_device", rec)>>
                            ELSE signals)
             ELSE validLoop(k, now, order, n + 1, removable, signals)

check_valid(k, now, order) ==
    LET l == validLoop(k, now, order, 1, {}, <<>>)
    IN  IF l.raised # "none" THEN Effect(k, <<>>, l.louie, l.raised)
        ELSE Effect([u \in (DOMAIN k) \ l.removable |-> k[u]], <<>>, l.louie, "none")

\* the byebyes of shutdown, lines 64-66
RECURSIVE byebyes(_, _, _)
byebyes(k, tr, order) ==
    IF Len(order) = 0 THEN <<>>
    ELSE (IF k[order[1]]["MANIFESTATION"] = "local" THEN doByebye(k, order[1], tr) ELSE <<>>)
         \o byebyes(k, tr, [n \in 1 .. (Len(order) - 1) |-> order[n + 1]])

\* the delayed calls shutdown leaves pending: those that are not send_it
Uncancelled(calls) == [c \in {x \in DOMAIN calls : x.func # "send_it"} |-> calls[c]]

(***************************************************************************)
(* subscribe, unsubscribe, callback.  A callback is known by its name; the *)
(* callbacks in leaving are those that, when called, unsubscribe           *)
(* themselves from the name they are called for.                           *)
(***************************************************************************)
Names == {"new_device"}
Callbacks == {"f", "g", "h"}

\* self._callbacks.get(name, [])
get(cb, name) == IF name \in DOMAIN cb THEN cb[name] ELSE <<>>

\* list.remove(x): the list without the first x
remove(list, x) ==
    LET i == CHOOSE j \in 1 .. Len(list) :
                 list[j] = x /\ \A l \in 1 .. (j - 1) : list[l] # x
    IN  SubSeq(list, 1, i - 1) \o SubSeq(list, i + 1, Len(list))

subscribe(cb, name, callback) ==
    (name :> Append(get(cb, name), callback)) @@ cb

unsubscribe(cb, name, callback) ==
    LET callbacks == get(cb, name)
    IN  (name :> IF \E n \in 1 .. Len(callbacks) : callbacks[n] = callback
                 THEN remove(callbacks, callback)
                 ELSE callbacks) @@ cb

\* the loop of line 301 from position n on, over the list object that
\* unsubscribe changes in place: the registry and the callbacks called
RECURSIVE callbackLoop(_, _, _, _, _)
callbackLoop(cb, name, leaving, n, ran) ==
    IF n > Len(get(cb, name)) THEN [_callbacks |-> cb, invoked |-> ran]
    ELSE LET c == get(cb, name)[n]
         IN  callbackLoop(IF c \in leaving THEN unsubscribe(cb, name, c) ELSE cb,
                          name, leaving, n + 1, Append(ran, c))

callback(cb, name, leaving) == callbackLoop(cb, name, leaving, 1, <<>>)

(***************************************************************************)
(* The state after SSDPServer.__init__.  With test set there is no port    *)
(* (hence no transport) and there are no LoopingCalls.                     *)
(***************************************************************************)
Init ==
    /\ test \in BOOLEAN
    /\ known = <<>>
    /\ _callbacks = <<>>
    /\ clock = 0
    /\ delayedCalls = EmptyBag
    /\ transport = IF test THEN "none" ELSE "ok"
    /\ resend_notify_loop = ~test
    /\ check_valid_loop = ~test
    /\ written = <<>>
    /\ louie = <<>>
    /\ scheduled = <<>>
    /\ invoked = <<>>
    /\ raised = "none"
    /\ call = [op |-> "__init__", usn |-> None, data |-> NoData]
    /\ par = 0
    /\ shut = FALSE

\* the history variables after a handler op, given usn or data, with effect e
Ran(op, usn, data, e) ==
    /\ written' = e.written
    /\ louie' = e.louie
    /\ scheduled' = e.scheduled
    /\ invoked' = <<>>
    /\ raised' = e.raised
    /\ call' = [op |-> op, usn |-> usn, data |-> data]
    /\ par' = 1 - par

(***************************************************************************)
(* Calls of the public methods register and unRegister.                    *)
(***************************************************************************)
LocalLocation == "http://10.0.0.1:8000/desc.xml"

Registered(manifestation, silent) ==
    \E usn \in USNs, st \in STs :
        LET e == register(known, transport, clock, manifestation, usn, st,
                          LocalLocation, SERVER_ID, DefaultCacheControl, silent, None)
        IN  /\ known' = e.known
            /\ Ran("register", usn, NoData, e)
            /\ UNCHANGED <<_callbacks, clock, delayedCalls, transport, test,
                           resend_notify_loop, check_valid_loop, shut>>

RegisterLocal == \E silent \in BOOLEAN : Registered("local", silent)

RegisterRemote == Registered("remote", FALSE)

RegisterRemoteSilent == Registered("remote", TRUE)

UnRegister ==
    \E usn \in USNs :
        LET e == unRegister(known, usn)
        IN  /\ known' = e.known
            /\ Ran("unRegister", usn, NoData, e)
            /\ UNCHANGED <<_callbacks, clock, delayedCalls, transport, test,
                           resend_notify_loop, check_valid_loop, shut>>

(***************************************************************************)
(* The reactor delivering a datagram from the peer.                        *)
(***************************************************************************)
Received(data) ==
    \E e \in datagramReceived(known, transport, clock, data, PeerHost, PeerPort) :
        /\ BagSize(delayedCalls) + Len(e.scheduled) <= MaxTimers
        /\ known' = e.known
        /\ delayedCalls' = BagAddAll(delayedCalls,
                                      [n \in 1 .. Len(e.scheduled) |-> e.scheduled[n].call])
        /\ Ran("datagramReceived", None, data, e)
        /\ UNCHANGED <<_callbacks, clock, transport, test, resend_notify_loop, check_valid_loop, shut>>

RecvNotify == \E data \in NotifyDatagrams : Received(data)

RecvSearch == \E data \in SearchDatagrams : Received(data)

RecvOther == \E data \in OtherDatagrams : Received(data)

(***************************************************************************)
(* The reactor running a pending delayed call, and the two LoopingCalls.   *)
(***************************************************************************)
SendIt ==
    \E c \in DOMAIN delayedCalls :
            /\ delayedCalls' = BagRemove(delayedCalls, c)
            /\ Ran("send_it", c.usn, NoData,
                   Effect(known, send_it(transport, c.response, c.destination),
                          <<>>, "none"))
            /\ UNCHANGED <<_callbacks, known, clock, transport, test,
                           resend_notify_loop, check_valid_loop, shut>>

ResendNotify ==
    /\ resend_notify_loop
    /\ \E order \in Orders(DOMAIN known) :
           Ran("resendNotify", None, NoData,
               Effect(known, resendNotify(known, transport, order), <<>>, "none"))
    /\ UNCHANGED <<_callbacks, known, clock, delayedCalls, transport, test,
                   resend_notify_loop, check_valid_loop, shut>>

CheckValid ==
    /\ check_valid_loop
    /\ \E order \in Orders(DOMAIN known) :
           \E e \in {check_valid(known, clock, order)} :
               /\ known' = e.known
               /\ Ran("check_valid", None, NoData, e)
    /\ UNCHANGED <<_callbacks, clock, delayedCalls, transport, test,
                   resend_notify_loop, check_valid_loop, shut>>

(***************************************************************************)
(* shutdown.                                                               *)
(***************************************************************************)
Shutdown ==
    /\ delayedCalls' = Uncancelled(delayedCalls)
    /\ resend_notify_loop' = (test /\ resend_notify_loop)
    /\ check_valid_loop' = (test /\ check_valid_loop)
    /\ \E order \in Orders(DOMAIN known) :
           Ran("shutdown", None, NoData,
               Effect(known,
                      IF test THEN <<>> ELSE byebyes(known, transport, order),
                      <<>>, "none"))
    /\ shut' = TRUE
    /\ UNCHANGED <<_callbacks, known, clock, transport, test>>

(***************************************************************************)
(* The environment: time passes; the socket fails, goes away, comes back.  *)
(***************************************************************************)
Idle == Effect(known, <<>>, <<>>, "none")

Tick ==
    /\ clock < MaxTime
    /\ clock' = CHOOSE t \in TimePoints :
                    t > clock /\ \A t2 \in TimePoints : t2 > clock => t <= t2
    /\ Ran("time", None, NoData, Idle)
    /\ UNCHANGED <<_callbacks, known, delayedCalls, transport, test,
                   resend_notify_loop, check_valid_loop, shut>>

TransportChange ==
    /\ ~test
    /\ \E tr \in {"ok", "faulty", "none"} \ {transport} : transport' = tr
    /\ Ran("transport", None, NoData, Idle)
    /\ UNCHANGED <<_callbacks, known, clock, delayedCalls, test,
                   resend_notify_loop, check_valid_loop, shut>>

(***************************************************************************)
(* Calls of subscribe, unsubscribe and callback.                           *)
(***************************************************************************)
Subscription(name, c) == [name |-> name, callback |-> c]

Subscribe ==
    \E name \in Names, c \in Callbacks :
        /\ Len(get(_callbacks, name)) < MaxCallbacks
        /\ _callbacks' = subscribe(_callbacks, name, c)
        /\ Ran("subscribe", None, Subscription(name, c), Idle)
        /\ UNCHANGED <<known, clock, delayedCalls, transport, test,
                       resend_notify_loop, check_valid_loop, shut>>

Unsubscribe ==
    \E name \in Names, c \in Callbacks :
        /\ _callbacks' = unsubscribe(_callbacks, name, c)
        /\ Ran("unsubscribe", None, Subscription(name, c), Idle)
        /\ UNCHANGED <<known, clock, delayedCalls, transport, test,
                       resend_notify_loop, check_valid_loop, shut>>

Callback ==
    \E name \in Names, leaving \in SUBSET Callbacks :
        LET e == callback(_callbacks, name, leaving)
        IN  /\ _callbacks' = e._callbacks
            /\ invoked' = e.invoked
            /\ written' = <<>>
            /\ louie' = <<>>
            /\ scheduled' = <<>>
            /\ raised' = "none"
            /\ call' = [op |-> "callback", usn |-> None,
                        data |-> [name |-> name, leaving |-> leaving]]
            /\ par' = 1 - par
            /\ UNCHANGED <<known, clock, delayedCalls, transport, test,
                           resend_notify_loop, check_valid_loop, shut>>

Next ==
    \/ Subscribe \/ Unsubscribe \/ Callback
    \/ RegisterLocal \/ RegisterRemote \/ RegisterRemoteSilent \/ UnRegister
    \/ RecvNotify \/ RecvSearch \/ RecvOther
    \/ SendIt \/ ResendNotify \/ CheckValid
    \/ Shutdown \/ Tick \/ TransportChange

Spec == Init /\ [][Next]_vars

\* presence: announcements heard and the expiry sweep
NextPresence ==
    \/ RegisterLocal \/ RecvNotify \/ RecvOther \/ CheckValid \/ Tick

SpecPresence == Init /\ [][NextPresence]_vars

\* discovery: searches answered, the answers sent, shutdown
NextDiscovery ==
    \/ RegisterLocal \/ RegisterRemote \/ RecvSearch \/ SendIt \/ Shutdown

InitLive == Init /\ ~test

SpecDiscovery == InitLive /\ [][NextDiscovery]_vars

\* farewell: shutdown over a transport that works, fails or is gone
NextFarewell ==
    \/ RegisterLocal \/ RegisterRemote \/ TransportChange \/ Shutdown

SpecFarewell == Init /\ [][NextFarewell]_vars

\* removal: records leaving by unRegister, by byebye and by the sweep
NextRemoval ==
    \/ RegisterLocal \/ UnRegister \/ RecvNotify \/ CheckValid \/ Tick

SpecRemoval == Init /\ [][NextRemoval]_vars

\* advertisement: alive on register and on the resend ticker, over a
\* transport that works, fails or is gone
NextAdvertise ==
    \/ RegisterLocal \/ RegisterRemote \/ RegisterRemoteSilent \/ UnRegister
    \/ ResendNotify \/ TransportChange \/ Shutdown

SpecAdvertise == Init /\ [][NextAdvertise]_vars

\* expiry: records learned from the peer and swept by the expiry ticker,
\* which fires for as long as it runs, while time goes on
NextExpiry == RecvNotify \/ CheckValid \/ Tick

SpecExpiry ==
    InitLive /\ [][NextExpiry]_vars /\ WF_vars(Tick) /\ WF_vars(CheckValid)

\* the callback registry
NextBus == Subscribe \/ Unsubscribe \/ Callback

SpecBus == Init /\ [][NextBus]_vars

NextRegistry == RegisterLocal \/ RegisterRemote \/ RegisterRemoteSilent \/ UnRegister

SpecRegistry == Init /\ [][NextRegistry]_vars

(***************************************************************************)
(* Properties.                                                             *)
(***************************************************************************)
Last(seq) == seq[Len(seq)]
Count(seq, P(_)) == Cardinality({n \in 1 .. Len(seq) : P(seq[n])})
Locals(k) == {u \in DOMAIN k : k[u]["MANIFESTATION"] = "local"}

\* C1: over every sequence of register and unRegister calls, a register of
\* usn leaves usn known, an unRegister of usn leaves it unknown (also the one
\* that raises because usn is unknown), a call for another USN leaves the
\* knowledge of usn as it was, and the record kept under a USN is the one
\* record with that USN.  Hence isKnown(usn) holds exactly when the last call
\* for usn was a register.
C1_KnownIffLastOpRegistered ==
    [][\A u \in USNs :
          /\ (call'.op = "register" /\ call'.usn = u) =>
                 (raised' = "none" /\ isKnown(known', u))
          /\ (call'.op = "unRegister" /\ call'.usn = u) => ~isKnown(known', u)
          /\ call'.usn # u => (isKnown(known', u) <=> isKnown(known, u))
          /\ Cardinality({v \in DOMAIN known' : known'[v]["USN"] = u})
                 = IF isKnown(known', u) THEN 1 ELSE 0
      ]_vars

C1_Witness ==
    /\ call.op = "unRegister"
    /\ call.usn = "uuid:a"
    /\ raised = "none"
    /\ ~isKnown(known, "uuid:a")
    /\ isKnown(known, "uuid:b")

\* C9: unRegister of a USN that is not in the registry raises nothing,
\* sends no signal, writes nothing and leaves the registry as it was.
C9_UnRegisterUnknownIsNoOp ==
    [][(call'.op = "unRegister" /\ ~isKnown(known, call'.usn)) =>
          /\ raised' = "none"
          /\ louie' = <<>>
          /\ written' = <<>>
          /\ known' = known
      ]_vars

\* the headers of a NOTIFY ssdp:alive that lacks none of its headers
AliveComplete(h) ==
    /\ {"nts", "usn", "nt", "location", "server", "cache-control"} \subseteq DOMAIN h
    /\ h["nts"] = "ssdp:alive"

\* C2: a NOTIFY ssdp:alive for a USN not in the registry, carrying usn,
\* nt, location, server and cache-control, adds exactly one record, under
\* that USN: remote, not silent, ST the nt header, LOCATION, SERVER and
\* CACHE-CONTROL the headers of those names, HOST the source host; the other
\* records stay as they were and nothing is written to the transport.
C2_AliveLearnsRemoteRecord ==
    [][call'.op = "datagramReceived" /\ call'.data \in NotifyDatagrams =>
          LET h == call'.data[1].headers
          IN  (AliveComplete(h) /\ h["usn"] \notin DOMAIN known) =>
                 /\ raised' = "none"
                 /\ DOMAIN known' = (DOMAIN known) \cup {h["usn"]}
                 /\ \A u \in DOMAIN known : known'[u] = known[u]
                 /\ known'[h["usn"]]["USN"] = h["usn"]
                 /\ known'[h["usn"]]["MANIFESTATION"] = "remote"
                 /\ known'[h["usn"]]["SILENT"] = FALSE
                 /\ known'[h["usn"]]["ST"] = h["nt"]
                 /\ known'[h["usn"]]["LOCATION"] = h["location"]
                 /\ known'[h["usn"]]["SERVER"] = h["server"]
                 /\ known'[h["usn"]]["CACHE-CONTROL"] = h["cache-control"]
                 /\ known'[h["usn"]]["HOST"] = PeerHost
                 /\ written' = <<>>
      ]_vars

\* a datagram has just taught the server a second record (new_device is
\* sent by register alone): a remote root device, next to a local record
C2_Witness ==
    /\ call.op = "datagramReceived"
    /\ raised = "none"
    /\ call.data \in NotifyDatagrams
    /\ AliveComplete(call.data[1].headers)
    /\ Last(louie).signal = "UPnP.SSDP.datagram_received"
    /\ louie[1].signal = "Coherence.UPnP.SSDP.new_device"
    /\ LET u == call.data[1].headers["usn"]
       IN  /\ isKnown(known, u)
           /\ known[u]["MANIFESTATION"] = "remote"
           /\ known[u]["HOST"] = PeerHost
           /\ louie[1].infos = known[u]
           /\ known[u]["last-seen"] = 31
           /\ Locals(known) # {}

\* the record's CACHE-CONTROL is name=integer
HasMaxAge(rec) ==
    LET parts == split(rec["CACHE-CONTROL"], "=")
    IN  Len(parts) = 2 /\ ~IntRaises(parts[2])

\* a remote record past last-seen + max_age + 30
Due(rec, now) ==
    /\ rec["MANIFESTATION"] = "remote"
    /\ HasMaxAge(rec)
    /\ now > rec["last-seen"] + int(split(rec["CACHE-CONTROL"], "=")[2]) + 30

\* C3: one run of check_valid at time now removes a remote record exactly
\* when now > last-seen + max_age + 30, max_age being the integer in the
\* record's CACHE-CONTROL; every other record stays, unchanged.
C3_SweepRemovesExactlyTheExpired ==
    [][call'.op = "check_valid" =>
          \A u \in DOMAIN known :
              IF Due(known[u], clock)
              THEN ~isKnown(known', u)
              ELSE isKnown(known', u) /\ known'[u] = known[u]
      ]_vars

\* the headers of a search with ST and a non-negative integer MX
WellFormedSearch(h) ==
    /\ {"st", "mx"} \subseteq DOMAIN h
    /\ ~IntRaises(h["mx"])
    /\ int(h["mx"]) >= 0

\* the record is to answer a search for st
Answers(rec, st) ==
    /\ rec["MANIFESTATION"] = "local"
    /\ rec["ST"] = st \/ (st = "ssdp:all" /\ rec["SILENT"] = FALSE)

Min(a, b) == IF a < b THEN a ELSE b

\* C5: the delay of every response scheduled for a search with an integer MX
\* is an integer in 0 .. min(MX, 5).
C5_DelayWithinClampedMX ==
    scheduled # <<>> =>
        LET mx == int(call.data[1].headers["mx"])
        IN  \A n \in 1 .. Len(scheduled) : scheduled[n].delay \in 0 .. Min(mx, 5)

\* the write w is the multicast byebye of the record
IsByebyeOf(w, rec) ==
    /\ w.datagram.start = "NOTIFY * HTTP/1.1"
    /\ w.datagram.dest = Multicast
    /\ w.datagram.headers["NTS"] = "ssdp:byebye"
    /\ w.datagram.headers["USN"] = rec["USN"]
    /\ w.datagram.headers["NT"] = rec["ST"]

\* C6: shutdown raises nothing and calls transport.write with one multicast
\* NOTIFY ssdp:byebye for every local record, silent or not, and with
\* nothing else: the datagram leaves when the transport works, the failure
\* of one write does not stop the writes for the remaining records, and
\* without a transport nothing is written.
C6_ShutdownByebyePerLocalRecord ==
    call.op = "shutdown" =>
        /\ raised = "none"
        /\ \A u \in DOMAIN known :
               Count(written, LAMBDA w : IsByebyeOf(w, known[u]))
                   = IF known[u]["MANIFESTATION"] = "local" /\ transport # "none"
                     THEN 1 ELSE 0
        /\ \A n \in 1 .. Len(written) :
               /\ written[n].sent = (transport = "ok")
               /\ \E u \in Locals(known) : IsByebyeOf(written[n], known[u])

\* shutdown with two local records, one of them silent, over a working
\* transport
C6_Witness ==
    /\ call.op = "shutdown"
    /\ transport = "ok"
    /\ Locals(known) = USNs
    /\ \E u \in USNs : known[u]["SILENT"] = TRUE
    /\ Len(written) = 2

\* C7: shutdown leaves no delayed call pending and no ticker running, and
\* once shutdown has returned no send_it, resendNotify or check_valid runs.
C7_NothingRunsAfterShutdown ==
    /\ call.op = "shutdown" =>
           /\ delayedCalls = EmptyBag
           /\ ~resend_notify_loop
           /\ ~check_valid_loop
    /\ shut => call.op \notin {"send_it", "resendNotify", "check_valid"}

\* C8: the headers of every search response are exactly CACHE-CONTROL, DATE,
\* EXT, LOCATION, SERVER, ST and USN.
C8_ResponseHeaderSet ==
    \A c \in DOMAIN delayedCalls :
        DOMAIN c.response.headers
            = {"CACHE-CONTROL", "DATE", "EXT", "LOCATION", "SERVER", "ST", "USN"}

\* C10: a payload without the blank line is dropped: datagramReceived raises
\* nothing, the registry and the pending calls stay as they were, nothing is
\* scheduled and nothing is written.
C10_MalformedPayloadIsDropped ==
    [][call'.op = "datagramReceived" /\ call'.data = Garbage =>
          /\ raised' = "none"
          /\ known' = known
          /\ delayedCalls' = delayedCalls
          /\ scheduled' = <<>>
          /\ written' = <<>>
      ]_vars

\* the payload has the blank line and a request line of at least two words,
\* so that it reaches the dispatch of lines 88-95
Dispatched(data) == Len(data) >= 2 /\ Len(data[1].cmd) >= 2

\* C11: whatever the dispatch of an inbound datagram does (alive, byebye,
\* unknown NTS, unknown command, a required header missing), datagramReceived
\* sends exactly one datagram_received signal, with the payload and the
\* source host and port, and sends it last, after the signals of the
\* registry change.
C11_DatagramReceivedAlwaysPublished ==
    (call.op = "datagramReceived" /\ Dispatched(call.data)) =>
        /\ Count(louie, LAMBDA s : s.signal = "UPnP.SSDP.datagram_received") = 1
        /\ Last(louie) = DatagramSignal(call.data, PeerHost, PeerPort)

\* the write w is the multicast alive of the record
IsAliveOf(w, rec) ==
    /\ w.datagram.start = "NOTIFY * HTTP/1.1"
    /\ w.datagram.dest = Multicast
    /\ w.datagram.headers["NTS"] = "ssdp:alive"
    /\ w.datagram.headers["USN"] = rec["USN"]
    /\ w.datagram.headers["NT"] = rec["ST"]

\* the record is one that is advertised: local and not silent
Advertised(rec) == rec["MANIFESTATION"] = "local" /\ rec["SILENT"] = FALSE

\* the USNs whose alive the handler that ran last is to send
Advertising ==
    CASE call.op = "register" -> {call.usn}
      [] call.op = "resendNotify" -> DOMAIN known
      [] OTHER -> {}

\* C12: register of a local record, and every run of resendNotify for every
\* record of the registry, sends the multicast NOTIFY ssdp:alive of a record
\* that is local and not silent exactly twice over a working transport, the
\* two datagrams being equal, and raises nothing; no alive is sent, nor
\* handed to the transport, for a silent or a remote record, in any state.
C12_AliveTwiceForLocalNonSilentOnly ==
    /\ call.op \in {"register", "resendNotify"} => raised = "none"
    /\ \A u \in DOMAIN known :
           Count(written, LAMBDA w : w.sent /\ IsAliveOf(w, known[u]))
               = IF u \in Advertising /\ Advertised(known[u]) /\ transport = "ok"
                 THEN 2 ELSE 0
    /\ \A n \in 1 .. Len(written) :
           written[n].datagram.headers["NTS"] = "ssdp:alive" =>
               \E u \in Advertising :
                   /\ isKnown(known, u)
                   /\ Advertised(known[u])
                   /\ written[n] = [datagram |-> NotifyDatagram(known[u], "ssdp:alive"),
                                    sent |-> (transport = "ok")]

\* the resend ticker has run over a record that is advertised and one that
\* is not, with a working transport
C12_Witness ==
    /\ call.op = "resendNotify"
    /\ transport = "ok"
    /\ \E u, v \in DOMAIN known : Advertised(known[u]) /\ ~Advertised(known[v])
    /\ Len(written) = 2
    /\ written[1].sent /\ written[2] = written[1]

\* the USN is in the registry as a root device
RootPresent(k, usn) == isKnown(k, usn) /\ k[usn]["ST"] = "upnp:rootdevice"

\* C13: register sends new_device exactly once when the st given is
\* upnp:rootdevice and the USN was not in the registry as a root device
\* before the call, and not at all otherwise: not for a USN registered again
\* as upnp:rootdevice, and not for any other st.
C13_NewDeviceOnlyForNewRootDevice ==
    [][call'.op = "register" =>
          Count(louie', LAMBDA s : s.signal = "Coherence.UPnP.SSDP.new_device")
              = IF /\ known'[call'.usn]["ST"] = "upnp:rootdevice"
                   /\ ~RootPresent(known, call'.usn)
                THEN 1 ELSE 0
      ]_vars

\* the removed_device signals about the USN among the signals
RemovedSignals(signals, usn) ==
    SelectSeq(signals, LAMBDA s : /\ s.signal = "Coherence.UPnP.SSDP.removed_device"
                                  /\ s.infos["USN"] = usn)

\* the payload is a NOTIFY ssdp:byebye that carries all its headers
IsByebye(data) ==
    /\ data \in NotifyDatagrams
    /\ {"nt", "nts", "usn"} \subseteq DOMAIN data[1].headers
    /\ data[1].headers["nts"] = "ssdp:byebye"

\* C14: in every step that takes a record out of the registry, one
\* removed_device signal is sent for it when its ST is upnp:rootdevice,
\* carrying that ST and the record as it was in the registry, and none when
\* its ST is another; unRegister of a known USN and a NOTIFY ssdp:byebye
\* for a known USN leave the USN unknown.
C14_RemovedDevicePerRootRemoval ==
    [][/\ \A u \in (DOMAIN known) \ (DOMAIN known') :
              RemovedSignals(louie', u)
                  = IF known[u]["ST"] = "upnp:rootdevice"
                    THEN <<DeviceSignal("Coherence.UPnP.SSDP.removed_device", known[u])>>
                    ELSE <<>>
       /\ (call'.op = "unRegister" /\ isKnown(known, call'.usn)) =>
              ~isKnown(known', call'.usn)
       /\ (call'.op = "datagramReceived" /\ IsByebye(call'.data)) =>
              ~isKnown(known', call'.data[1].headers["usn"])
      ]_vars

\* the sweep has just removed a root device and sent its removed_device,
\* and left another record in the registry
C14_Witness ==
    /\ call.op = "check_valid"
    /\ raised = "none"
    /\ Len(louie) = 1
    /\ louie[1].signal = "Coherence.UPnP.SSDP.removed_device"
    /\ louie[1].device_type = "upnp:rootdevice"
    /\ ~isKnown(known, louie[1].infos["USN"])
    /\ known # <<>>

\* C15: unRegister of a local record hands the multicast NOTIFY ssdp:byebye
\* of that record to the transport and removes the record, and shutdown
\* does both for every local record.
C15_LocalRemovalIsAnnounced ==
    [][/\ (call'.op = "unRegister" /\ call'.usn \in Locals(known)) =>
              /\ ~isKnown(known', call'.usn)
              /\ transport # "none" =>
                     Count(written', LAMBDA w : IsByebyeOf(w, known[call'.usn])) = 1
       /\ call'.op = "shutdown" =>
              \A u \in Locals(known) :
                  /\ ~isKnown(known', u)
                  /\ (transport # "none" /\ ~test) =>
                         Count(written', LAMBDA w : IsByebyeOf(w, known[u])) = 1
      ]_vars

\* C16: every record of the registry that is silent is local.
C16_SilentOnlyIfLocal ==
    \A u \in DOMAIN known :
        known[u]["SILENT"] = TRUE => known[u]["MANIFESTATION"] = "local"

\* no callback is in the list twice
Distinct(list) == \A i, j \in 1 .. Len(list) : i # j => list[i] # list[j]

\* C17: callback(name), with callbacks that unsubscribe themselves while
\* they run, calls every callback that was subscribed to the name when
\* callback(name) began, once each and in the order of subscription, and
\* afterwards none of the callbacks that unsubscribed is subscribed to the
\* name (each callback being subscribed to the name at most once).
C17_UnsubscribeWhileCalledIsSafe ==
    [][call'.op = "callback" =>
          LET name == call'.data.name
              subscribed == get(_callbacks, name)
          IN  Distinct(subscribed) =>
                 /\ invoked' = subscribed
                 /\ \A n \in 1 .. Len(invoked') :
                        invoked'[n] \in call'.data.leaving =>
                            \A m \in 1 .. Len(get(_callbacks', name)) :
                                get(_callbacks', name)[m] # invoked'[n]
      ]_vars

\* the payload is a NOTIFY ssdp:alive that names its USN
IsAlive(data) ==
    /\ data \in NotifyDatagrams
    /\ {"nts", "usn"} \subseteq DOMAIN data[1].headers
    /\ data[1].headers["nts"] = "ssdp:alive"

\* C18: a NOTIFY ssdp:alive for a USN that is in the registry leaves every
\* other record, every field of the record but last-seen, and the pending
\* delayed calls as they were, whatever its other headers say; it schedules
\* and writes nothing and sends no new_device; and when it carries NT, it
\* raises nothing and sets the record's last-seen to the time of arrival.
C18_AliveForKnownTouchesLastSeenOnly ==
    [][(/\ call'.op = "datagramReceived"
        /\ IsAlive(call'.data)
        /\ isKnown(known, call'.data[1].headers["usn"])) =>
          LET h == call'.data[1].headers
              u == h["usn"]
          IN  /\ DOMAIN known' = DOMAIN known
              /\ \A v \in (DOMAIN known) \ {u} : known'[v] = known[v]
              /\ DOMAIN known'[u] = DOMAIN known[u]
              /\ \A f \in (DOMAIN known[u]) \ {"last-seen"} : known'[u][f] = known[u][f]
              /\ "nt" \in DOMAIN h => (raised' = "none" /\ known'[u]["last-seen"] = clock)
              /\ delayedCalls' = delayedCalls
              /\ scheduled' = <<>>
              /\ written' = <<>>
              /\ Count(louie', LAMBDA s : s.signal = "Coherence.UPnP.SSDP.new_device") = 0
      ]_vars

\* an alive from the peer, naming another NT, has just refreshed the
\* last-seen of a record registered locally at time 0
C18_Witness ==
    /\ call.op = "datagramReceived"
    /\ IsAlive(call.data)
    /\ raised = "none"
    /\ clock = 31
    /\ LET h == call.data[1].headers
       IN  /\ isKnown(known, h["usn"])
           /\ known[h["usn"]]["MANIFESTATION"] = "local"
           /\ known[h["usn"]]["ST"] # h["nt"]
           /\ known[h["usn"]]["last-seen"] = 31

\* C19: no inbound datagram and no run of check_valid takes a local record
\* out of the registry or makes it other than local.
C19_LocalRecordOutlivesNotifyAndSweep ==
    [][call'.op \in {"datagramReceived", "check_valid"} =>
          \A u \in Locals(known) : u \in Locals(known')
      ]_vars

\* the USN is that of a remote record with a max-age whose time to expire,
\* last-seen + max_age + 30, comes within the time the clock covers
Expiring(u) ==
    /\ isKnown(known, u)
    /\ known[u]["MANIFESTATION"] = "remote"
    /\ \E parts \in {split(known[u]["CACHE-CONTROL"], "=")} :
           /\ Len(parts) = 2
           /\ ~IntRaises(parts[2])
           /\ known[u]["last-seen"] + int(parts[2]) + 30 < MaxTime

\* C20: with the clock advancing and the expiry ticker firing for as long as
\* it runs, a remote record that is not refreshed by a further ssdp:alive
\* is eventually removed from the registry.
C20_RemoteRecordEventuallyExpires ==
    \A u \in USNs : Expiring(u) ~> ~Expiring(u)

====
